---- MODULE Spec2Model ----
(***************************************************************************)
(* kubevirt-actions-runner: run() of src/main.rs as a state machine.      *)
(*                                                                         *)
(* Strings that the program concatenates or tests for emptiness are        *)
(* sequences of string atoms (the empty string is << >>); Option<T> is a   *)
(* sequence of length at most one (None is << >>, Some(x) is << x >>).     *)
(***************************************************************************)
EXTENDS Integers, Sequences, FiniteSets, TLC

VARIABLES
    pc,             \* position of the process in main()/run()
    opts,           \* parsed command line (Opts), read at lines 218-259
    envv,           \* environment read by the URL closure, lines 225-231
    runner_info,    \* Option<RunnerInfo>, lines 219-259
    exists,         \* the cluster holds an instance with the runner name
    found,          \* what get_opt returned at line 283: "unknown", "some", "none"
    template,       \* Option<VirtualMachine>, line 290
    vmi,            \* Option<VirtualMachineInstance> composed at lines 292-322
    calls,          \* the kube API calls issued so far, in order, with their results
    sigterm,        \* a SIGTERM has been delivered and not yet received
    sigint,         \* a SIGINT has been delivered and not yet received
    won,            \* the select! branch that completed, line 330
    last_phase,     \* wait_for_vmi's last_phase, line 383
    consumed,       \* items wait_for_vmi has taken off the stream (tracker runs only)
    reports,        \* phases logged "VMI has transitioned to", line 392
    tracker,        \* what wait_for_vmi returned: kind "running", "ok" or "err"
    outcome,        \* Option<VmiOutcome>: the value bound at line 330
    run_result,     \* what run() returned (or that it panicked)
    printed,        \* lines main() wrote as "Error: ..." (line 207)
    slept,          \* main() waited the 10 seconds of line 211
    exit_code       \* Option<exit status of the process>

vars == << pc, opts, envv, runner_info, exists, found, template, vmi, calls,
           sigterm, sigint, won, last_phase, consumed, reports, tracker,
           outcome, run_result, printed, slept, exit_code >>

---------------------------------------------------------------------------
(* Bounds of the model *)

\* longest volume list of a template
MaxVolumes == 3
\* most items a recorded watch stream delivers
MaxEvents == 5

---------------------------------------------------------------------------
(* Option and small helpers *)

None == << >>
Some(x) == << x >>
IsSome(o) == Len(o) > 0
Unwrap(o) == o[1]

SeqsUpTo(S, n) == UNION { [1..k -> S] : k \in 0..n }

---------------------------------------------------------------------------
(* Constants of the program *)

RUNNER_INFO_ANNOTATION == "li.zhaofeng.kubevirt-actions-runner/runner-info"
RUNNER_INFO_VOLUME == "runner-info"
RUNNER_INFO_PATH == "runner-info.json"
DefaultBase == << "https://github.com/" >>
DefaultName == << "runner" >>
ExitFailure == 1
ExitPanic == 101
ExitSuccess == 0

---------------------------------------------------------------------------
(* VmiOutcome *)

VmiOutcome == { "Succeeded", "Failed", "Deleted", "WatchInterrupted" }

\* variant: is_abnormal with Deleted taken for a normal end
is_abnormal_deleted_ok(o) == o \in { "Failed", "WatchInterrupted" }
is_abnormal(o) == o \in { "Failed", "Deleted", "WatchInterrupted" }

---------------------------------------------------------------------------
(* Results of run() *)

NoResult == [kind |-> "none", site |-> "none", detail |-> "none"]
OkResult == [kind |-> "ok", site |-> "none", detail |-> "none"]
Err(site, detail) == [kind |-> "err", site |-> site, detail |-> detail]
Panic(detail) == [kind |-> "panic", site |-> "config", detail |-> detail]

---------------------------------------------------------------------------
(* Bootstrap payload, lines 219-259 *)

OptStrings(S) == { None } \cup { Some(s) : s \in S }

OptsSet ==
    [ name : { DefaultName },
      jitconfig : OptStrings({ << "abc" >> }),
      token : OptStrings({ << "tok" >> }),
      url : OptStrings({ << "https://ghe.example/", "team" >> }),
      ephemeral : { "false" },
      groups : { << >> },
      labels : { << >> } ]

EnvSet ==
    [ GITHUB_URL : OptStrings({ << "https://ghe.example/" >> }),
      RUNNER_REPO : OptStrings({ << >>, << "acme/widgets" >> }),
      RUNNER_ORG : OptStrings({ << >>, << "acme" >> }) ]

\* what remains of the inputs once lines 219-259 have read them
OptsTaken == [ name |-> DefaultName, jitconfig |-> None, token |-> None, url |-> None,
               ephemeral |-> "false", groups |-> << >>, labels |-> << >> ]
EnvTaken == [ GITHUB_URL |-> None, RUNNER_REPO |-> None, RUNNER_ORG |-> None ]

\* env::var(..).ok().and_then(|v| if v.is_empty() { None } else { Some(v) })
NonEmptyVar(v) == IF IsSome(v) /\ Unwrap(v) # << >> THEN v ELSE None

\* variant: UrlBase without the GITHUB_URL override
UrlBaseIgnoringOverride(e) == DefaultBase
\* env::var("GITHUB_URL").unwrap_or_else(|_| "https://github.com/")
UrlBase(e) == IF IsSome(e.GITHUB_URL) THEN Unwrap(e.GITHUB_URL) ELSE DefaultBase

\* variant: ResolveUrl without the both-non-empty error: the org is taken
ResolveUrlOrgWins(o, e) ==
    LET repo == NonEmptyVar(e.RUNNER_REPO)
        org == NonEmptyVar(e.RUNNER_ORG)
    IN  IF IsSome(o.url) THEN [ok |-> TRUE, url |-> Unwrap(o.url), detail |-> "none"]
        ELSE IF IsSome(org)
        THEN [ok |-> TRUE, url |-> UrlBase(e) \o Unwrap(org), detail |-> "none"]
        ELSE IF IsSome(repo)
        THEN [ok |-> TRUE, url |-> UrlBase(e) \o Unwrap(repo), detail |-> "none"]
        ELSE [ok |-> FALSE, url |-> << >>,
              detail |-> "RUNNER_REPO or RUNNER_ORG must be set"]

\* the closure of lines 224-247: [ok, url] or [ok = FALSE, detail]
ResolveUrl(o, e) ==
    LET repo == NonEmptyVar(e.RUNNER_REPO)
        org == NonEmptyVar(e.RUNNER_ORG)
    IN  IF IsSome(o.url) THEN [ok |-> TRUE, url |-> Unwrap(o.url), detail |-> "none"]
        ELSE IF IsSome(org) /\ IsSome(repo)
        THEN [ok |-> FALSE, url |-> << >>,
              detail |-> "RUNNER_REPO and RUNNER_ORG cannot both be non-empty"]
        ELSE IF ~IsSome(org) /\ ~IsSome(repo)
        THEN [ok |-> FALSE, url |-> << >>,
              detail |-> "RUNNER_REPO or RUNNER_ORG must be set"]
        ELSE IF IsSome(org)
        THEN [ok |-> TRUE, url |-> UrlBase(e) \o Unwrap(org), detail |-> "none"]
        ELSE [ok |-> TRUE, url |-> UrlBase(e) \o Unwrap(repo), detail |-> "none"]

JitRunnerInfo(j) ==
    [ variant |-> "Jit", jitconfig |-> j, name |-> << >>, token |-> << >>,
      url |-> << >>, ephemeral |-> "false", groups |-> << >>, labels |-> << >> ]

LegacyRunnerInfo(n, t, u, e, g, l) ==
    [ variant |-> "Legacy", jitconfig |-> << >>, name |-> n, token |-> t,
      url |-> u, ephemeral |-> e, groups |-> g, labels |-> l ]

\* serde_json::to_string(&runner_info), untagged: the object's members in field order
Serialize(ri) ==
    IF ri.variant = "Jit"
    THEN << << "jitconfig", ri.jitconfig >> >>
    ELSE << << "name", ri.name >>, << "token", ri.token >>, << "url", ri.url >>,
            << "ephemeral", << ri.ephemeral >> >>, << "groups", ri.groups >>,
            << "labels", ri.labels >> >>

---------------------------------------------------------------------------
(* Template and instance composition, lines 290-322 *)

\* the `data` map of lines 300-310
DownwardData ==
    "downwardAPI" :>
        [ fields |-> << [ path |-> RUNNER_INFO_PATH,
                          fieldRef |-> [ fieldPath |->
                              << "metadata.annotations['", RUNNER_INFO_ANNOTATION, "']" >> ] ] >> ]

Volume(n, d) == [ name |-> n, data |-> d ]

TemplateVolumeSet ==
    { Volume("data", "persistentVolumeClaim" :> [ claimName |-> "data" ]),
      Volume("cache", "emptyDir" :> [ medium |-> "Memory" ]),
      Volume(RUNNER_INFO_VOLUME, "configMap" :> [ name |-> "stale" ]) }

StaleInfo == << << "jitconfig", << "stale" >> >> >>

TemplateAnnotationSet ==
    { None,
      Some("team" :> << << "ci" >> >>),
      Some((RUNNER_INFO_ANNOTATION :> StaleInfo) @@ ("team" :> << << "ci" >> >>)) }

\* template.spec.template of a VirtualMachine: ObjectMeta and VirtualMachineInstanceSpec
Templates ==
    [ metadata : [ name : { Some(<< "runner-template" >>) },
                   annotations : TemplateAnnotationSet ],
      spec : [ volumes : { None } \cup { Some(v) : v \in SeqsUpTo(TemplateVolumeSet, MaxVolumes) },
               data : { "domain" :> "devices" } ] ]

SampleTemplates ==
    { t \in Templates : /\ t.metadata.annotations = None
                        /\ Len(IF t.spec.volumes = None THEN << >> ELSE t.spec.volumes[1]) <= 1 }

\* BTreeMap::insert
MapInsert(m, k, v) == [ x \in (DOMAIN m) \cup { k } |-> IF x = k THEN v ELSE m[x] ]

\* Option::get_or_insert_with(Default::default)
GetOrDefault(o, d) == IF IsSome(o) THEN Unwrap(o) ELSE d

EmptyMap == [ x \in {} |-> << >> ]

\* volumes.iter_mut().find(|v| v.name == RUNNER_INFO_VOLUME): its index, 0 when none
FindVolume(vols) ==
    IF \E i \in 1..Len(vols) : vols[i].name = RUNNER_INFO_VOLUME
    THEN CHOOSE i \in 1..Len(vols) :
            /\ vols[i].name = RUNNER_INFO_VOLUME
            /\ \A j \in 1..(i - 1) : vols[j].name # RUNNER_INFO_VOLUME
    ELSE 0

RemoveAt(s, i) == [ j \in 1..(Len(s) - 1) |-> IF j < i THEN s[j] ELSE s[j + 1] ]

\* variant: UpsertVolume that removes the old entry and pushes the new one
UpsertVolumeMoveToEnd(vols, data) ==
    LET i == FindVolume(vols)
    IN  IF i > 0
        THEN Append(RemoveAt(vols, i), Volume(RUNNER_INFO_VOLUME, data))
        ELSE Append(vols, Volume(RUNNER_INFO_VOLUME, data))

\* variant: UpsertVolume without the find: always pushes
UpsertVolumeAlwaysPush(vols, data) == Append(vols, Volume(RUNNER_INFO_VOLUME, data))

\* lines 313-322
UpsertVolume(vols, data) ==
    LET i == FindVolume(vols)
    IN  IF i > 0
        THEN [ vols EXCEPT ![i].data = data ]
        ELSE Append(vols, Volume(RUNNER_INFO_VOLUME, data))

\* lines 292-322: the VirtualMachineInstance built from the template
Merge(t, vmi_name, ri) ==
    [ metadata |->
        [ name |-> Some(vmi_name),
          annotations |->
            Some(MapInsert(GetOrDefault(t.metadata.annotations, EmptyMap),
                           RUNNER_INFO_ANNOTATION, Serialize(ri))) ],
      spec |->
        [ volumes |-> Some(UpsertVolume(GetOrDefault(t.spec.volumes, << >>), DownwardData)),
          data |-> t.spec.data ] ]

---------------------------------------------------------------------------
(* wait_for_vmi, lines 374-417 *)

Phases == { "Unknown", "Pending", "Running", "Succeeded", "Failed" }

Item(type, status) == [ type |-> type, status |-> status ]

\* what stream.next().await can give: Some(Ok(event)), Some(Err(_)) or None.
\* An Applied carries obj.status (an Option); a Restarted carries the re-listed
\* objects, here the phases of their statuses.
NonStoppingItems ==
    { Item("Applied", None) }
        \cup { Item("Applied", Some(p)) : p \in { "Unknown", "Pending", "Running" } }
        \cup { Item("Restarted", None), Item("Restarted", Some("Succeeded")) }

StreamItems ==
    NonStoppingItems
        \cup { Item("Applied", Some("Succeeded")), Item("Applied", Some("Failed")),
               Item("Deleted", None), Item("Error", None), Item("End", None) }

Continue(last, rep) == [ kind |-> "continue", outcome |-> "none", last |-> last, report |-> rep ]
Return(o, last, rep) == [ kind |-> "ok", outcome |-> o, last |-> last, report |-> rep ]
Fail(last) == [ kind |-> "err", outcome |-> "none", last |-> last, report |-> << >> ]

\* variant: Applied that records the phase before looking at it
AppliedRecordsFirst(last, phase) ==
    IF phase # last
    THEN Continue(phase, << phase >>)
    ELSE IF phase = "Succeeded" THEN Return("Succeeded", last, << >>)
    ELSE IF phase = "Failed" THEN Return("Failed", last, << >>)
    ELSE Continue(last, << >>)

\* variant: Applied without the comparison with last_phase
AppliedNoSuppression(last, phase) ==
    IF phase = "Succeeded" THEN Return("Succeeded", last, << phase >>)
    ELSE IF phase = "Failed" THEN Return("Failed", last, << phase >>)
    ELSE Continue(phase, << phase >>)

\* lines 389-404: an Applied whose object has a status with this phase
Applied(last, phase) ==
    IF phase # last
    THEN IF phase = "Succeeded" THEN Return("Succeeded", last, << phase >>)
         ELSE IF phase = "Failed" THEN Return("Failed", last, << phase >>)
         ELSE Continue(phase, << phase >>)
    ELSE Continue(last, << >>)

\* variant: OtherEvent that reads the re-listed objects as an Applied or a Deleted
OtherEventAsApplied(last, item) ==
    IF IsSome(item.status) THEN Applied(last, Unwrap(item.status)) ELSE Return("Deleted", last, << >>)

\* line 412: any other event
OtherEvent(last, item) == Continue(last, << >>)

\* variant: Deleted that goes on with the loop
DeletedIgnored(last) == Continue(last, << >>)

\* lines 409-411
Deleted(last) == Return("Deleted", last, << >>)

\* one turn of the loop of lines 384-414, and line 416 when the stream has ended
TrackerStep(last, item) ==
    IF item.type = "End" THEN Return("WatchInterrupted", last, << >>)
    ELSE IF item.type = "Error" THEN Fail(last)
    ELSE IF item.type = "Applied"
    THEN IF IsSome(item.status) THEN Applied(last, Unwrap(item.status))
         ELSE Continue(last, << >>)
    ELSE IF item.type = "Deleted" THEN Deleted(last)
    ELSE OtherEvent(last, item)

---------------------------------------------------------------------------
(* The process: main() and run() *)

vmi_name == opts.name

Call(op, line, ok) == [ op |-> op, line |-> line, ok |-> ok ]

\* variant: Try that goes on after an Err
TrySwallow(ok, next) == next
\* the `?` operator: on Err the function returns at once
Try(ok, next) == IF ok THEN next ELSE "returned"

\* variant: AfterLookup without the delete of the instance found
AfterLookupNeverDelete(some) == "fetch"
\* line 283: `if vmis.get_opt(&vmi_name).await?.is_some()`
AfterLookup(some) == IF some THEN "predelete" ELSE "fetch"

\* variant: NeedsCleanup that also skips a Succeeded instance
NeedsCleanupUnlessSucceeded(o) == o \notin { "Deleted", "Succeeded" }
\* variant: NeedsCleanup without the test
NeedsCleanupAlways(o) == TRUE
\* line 359: `if outcome != VmiOutcome::Deleted`
NeedsCleanup(o) == o # "Deleted"

\* variant: SignalOutcome with the wrong variant
SignalOutcomeSucceeded == "Succeeded"
\* lines 333 and 337
SignalOutcome == "WatchInterrupted"

\* lines 366-370
Classify(o) == IF is_abnormal(o) THEN Err("outcome", o) ELSE OkResult

Init ==
    /\ pc = "config"
    /\ opts \in OptsSet
    /\ envv \in EnvSet
    /\ runner_info = None
    /\ exists \in BOOLEAN
    /\ found = "unknown"
    /\ template = None
    /\ vmi = None
    /\ calls = << >>
    /\ sigterm = FALSE
    /\ sigint = FALSE
    /\ won = "none"
    /\ last_phase = "Unknown"
    /\ consumed = << >>
    /\ reports = << >>
    /\ tracker = "idle"
    /\ outcome = None
    /\ run_result = NoResult
    /\ printed = 0
    /\ slept = FALSE
    /\ exit_code = None

\* variant: UseJit that gives way to a registration token
UseJitUnlessToken(o) == IsSome(o.jitconfig) /\ ~IsSome(o.token)
\* line 219: `if let Some(jitconfig) = &opts.jitconfig`
UseJit(o) == IsSome(o.jitconfig)

\* lines 218-259
BuildRunnerInfo ==
    /\ pc = "config"
    /\ opts' = OptsTaken
    /\ envv' = EnvTaken
    /\ IF UseJit(opts)
       THEN /\ runner_info' = Some(JitRunnerInfo(Unwrap(opts.jitconfig)))
            /\ pc' = "client"
            /\ run_result' = run_result
       ELSE LET r == ResolveUrl(opts, envv)
            IN  IF ~r.ok
                THEN /\ run_result' = Err("config", r.detail)
                     /\ pc' = "returned"
                     /\ runner_info' = runner_info
                ELSE IF ~IsSome(opts.token)
                THEN /\ run_result' = Panic("A token is required")
                     /\ pc' = "panicked"
                     /\ runner_info' = runner_info
                ELSE /\ runner_info' = Some(LegacyRunnerInfo(vmi_name, Unwrap(opts.token),
                                            r.url, opts.ephemeral, opts.groups, opts.labels))
                     /\ pc' = "client"
                     /\ run_result' = run_result
    /\ UNCHANGED << exists, found, template, vmi, calls, sigterm, sigint, won, last_phase,
                    consumed, reports, tracker, outcome, printed, slept, exit_code >>

\* lines 261-281: the client and the discovery of the two kinds
Connect ==
    /\ pc = "client"
    /\ \E r \in { "ok", "Client::try_default", "Failed to get kubevirt.io API group",
                  "no VirtualMachine type", "no VirtualMachineInstance type" } :
          /\ pc' = Try(r = "ok", "lookup")
          /\ run_result' = IF r = "ok" THEN run_result ELSE Err("client", r)
    /\ UNCHANGED << opts, envv, runner_info, exists, found, template, vmi, calls, sigterm,
                    sigint, won, last_phase, consumed, reports, tracker, outcome, printed,
                    slept, exit_code >>

\* line 283
Lookup ==
    /\ pc = "lookup"
    /\ \E ok \in BOOLEAN :
          /\ calls' = Append(calls, Call("get_opt", 283, ok))
          /\ found' = IF ok THEN (IF exists THEN "some" ELSE "none") ELSE found
          /\ pc' = Try(ok, AfterLookup(exists))
          /\ run_result' = IF ok THEN run_result ELSE Err("lookup", "get_opt")
    /\ UNCHANGED << opts, envv, runner_info, exists, template, vmi, sigterm, sigint, won,
                    last_phase, consumed, reports, tracker, outcome, printed, slept,
                    exit_code >>

\* lines 284-287
DeleteExisting ==
    /\ pc = "predelete"
    /\ \E ok \in BOOLEAN :
          /\ calls' = Append(calls, Call("delete_and_finalize", 285, ok))
          /\ exists' = IF ok THEN FALSE ELSE exists
          /\ pc' = Try(ok, "fetch")
          /\ run_result' = IF ok THEN run_result
                           ELSE Err("predelete", "Failed to delete existing VMI")
    /\ UNCHANGED << opts, envv, runner_info, found, template, vmi, sigterm, sigint, won,
                    last_phase, consumed, reports, tracker, outcome, printed, slept,
                    exit_code >>

\* lines 290-322: the template is fetched and the instance composed from it;
\* the cluster answers with an error or with one of the templates T
FetchTemplateFrom(T) ==
    /\ pc = "fetch"
    /\ \E ok \in BOOLEAN :
          /\ calls' = Append(calls, Call("get", 290, ok))
          /\ pc' = Try(ok, "create")
          /\ run_result' = IF ok THEN run_result ELSE Err("fetch", "get")
          /\ IF ok
             THEN \E t \in T :
                     /\ template' = Some(t)
                     /\ vmi' = Some(Merge(t, vmi_name, Unwrap(runner_info)))
             ELSE UNCHANGED << template, vmi >>
    /\ UNCHANGED << opts, envv, runner_info, exists, found, sigterm, sigint, won,
                    last_phase, consumed, reports, tracker, outcome, printed, slept,
                    exit_code >>

\* in a whole run the template is one without annotations and with at most one volume
FetchTemplate == FetchTemplateFrom(SampleTemplates)

\* lines 324-325
Create ==
    /\ pc = "create"
    /\ \E ok \in BOOLEAN :
          /\ calls' = Append(calls, Call("create", 325, ok))
          /\ exists' = IF ok THEN TRUE ELSE exists
          /\ pc' = Try(ok, "signals")
          /\ run_result' = IF ok THEN run_result ELSE Err("create", "create")
    /\ UNCHANGED << opts, envv, runner_info, found, template, vmi, sigterm, sigint, won,
                    last_phase, consumed, reports, tracker, outcome, printed, slept,
                    exit_code >>

\* lines 328-329
RegisterSignals ==
    /\ pc = "signals"
    /\ \E r \in { "ok", "Failed to watch SIGTERM", "Failed to watch SIGINT" } :
          /\ pc' = Try(r = "ok", "watching")
          /\ run_result' = IF r = "ok" THEN run_result ELSE Err("signal", r)
    /\ UNCHANGED << opts, envv, runner_info, exists, found, template, vmi, calls, sigterm,
                    sigint, won, last_phase, consumed, reports, tracker, outcome, printed,
                    slept, exit_code >>

\* the environment: a termination signal reaches the process once the handlers
\* of lines 328-329 are installed
DeliverSignal ==
    /\ pc \in { "watching", "cleanup" }
    /\ \/ ~sigterm /\ sigterm' = TRUE /\ sigint' = sigint
       \/ ~sigint /\ sigint' = TRUE /\ sigterm' = sigterm
    /\ UNCHANGED << pc, opts, envv, runner_info, exists, found, template, vmi, calls, won,
                    last_phase, consumed, reports, tracker, outcome, run_result, printed,
                    slept, exit_code >>

\* variant: SelectSigterm that is still waited for once the race is over
SelectSigtermLate ==
    /\ pc \in { "watching", "cleanup" }
    /\ sigterm
    /\ sigterm' = FALSE
    /\ won' = "sigterm"
    /\ outcome' = Some(SignalOutcome)
    /\ pc' = "cleanup"
    /\ UNCHANGED << opts, envv, runner_info, exists, found, template, vmi, calls, sigint,
                    last_phase, consumed, reports, tracker, run_result, printed, slept,
                    exit_code >>

\* variant: SelectSigterm that takes the signal and goes on watching
SelectSigtermSwallowed ==
    /\ pc = "watching"
    /\ sigterm
    /\ sigterm' = FALSE
    /\ UNCHANGED << pc, opts, envv, runner_info, exists, found, template, vmi, calls,
                    sigint, won, last_phase, consumed, reports, tracker, outcome,
                    run_result, printed, slept, exit_code >>

\* lines 331-334
SelectSigterm ==
    /\ pc = "watching"
    /\ sigterm
    /\ sigterm' = FALSE
    /\ won' = "sigterm"
    /\ outcome' = Some(SignalOutcome)
    /\ pc' = "cleanup"
    /\ UNCHANGED << opts, envv, runner_info, exists, found, template, vmi, calls, sigint,
                    last_phase, consumed, reports, tracker, run_result, printed, slept,
                    exit_code >>

\* lines 335-338
SelectSigint ==
    /\ pc = "watching"
    /\ sigint
    /\ sigint' = FALSE
    /\ won' = "sigint"
    /\ outcome' = Some(SignalOutcome)
    /\ pc' = "cleanup"
    /\ UNCHANGED << opts, envv, runner_info, exists, found, template, vmi, calls, sigterm,
                    last_phase, consumed, reports, tracker, run_result, printed, slept,
                    exit_code >>

\* lines 339-356 with wait_for_vmi: the watch branch is polled and takes one item off
\* the stream; the first poll opens the watch (line 375)
SelectWatch ==
    /\ pc = "watching"
    /\ \E item \in StreamItems :
          LET r == TrackerStep(last_phase, item)
              opened == IF tracker = "idle"
                        THEN Append(calls, Call("watcher", 375, TRUE)) ELSE calls
          IN  /\ calls' = IF r.kind = "err"
                          THEN [ opened EXCEPT ![Len(opened)].ok = FALSE ] ELSE opened
              /\ last_phase' = r.last
              /\ tracker' = IF r.kind = "continue" THEN "running" ELSE r.kind
              /\ exists' = IF item.type = "Deleted" THEN FALSE ELSE exists
              /\ IF r.kind = "continue"
                 THEN UNCHANGED << pc, won, outcome, run_result >>
                 ELSE IF r.kind = "ok"
                 THEN /\ won' = "watch"
                      /\ outcome' = Some(r.outcome)
                      /\ pc' = "cleanup"
                      /\ run_result' = run_result
                 ELSE /\ won' = "watch"
                      /\ outcome' = outcome
                      /\ pc' = Try(FALSE, "cleanup")
                      /\ run_result' = Err("watch", "Failed to watch VMI")
    /\ UNCHANGED << opts, envv, runner_info, found, template, vmi, sigterm, sigint,
                    consumed, reports, printed, slept, exit_code >>

\* lines 359-370
Cleanup ==
    /\ pc = "cleanup"
    /\ IF NeedsCleanup(Unwrap(outcome))
       THEN \E ok \in BOOLEAN :
               /\ calls' = Append(calls, Call("delete_and_finalize", 361, ok))
               /\ exists' = IF ok THEN FALSE ELSE exists
               /\ pc' = Try(ok, "returned")
               /\ run_result' = IF ok THEN Classify(Unwrap(outcome))
                                ELSE Err("cleanup", "Failed to delete VMI")
       ELSE /\ UNCHANGED << calls, exists >>
            /\ pc' = "returned"
            /\ run_result' = Classify(Unwrap(outcome))
    /\ UNCHANGED << opts, envv, runner_info, found, template, vmi, sigterm, sigint, won,
                    last_phase, consumed, reports, tracker, outcome, printed, slept,
                    exit_code >>

\* lines 206 and 215: run() returned Ok, main returns
MainOk ==
    /\ pc = "returned"
    /\ run_result.kind = "ok"
    /\ exit_code' = Some(ExitSuccess)
    /\ pc' = "exited"
    /\ UNCHANGED << opts, envv, runner_info, exists, found, template, vmi, calls, sigterm,
                    sigint, won, last_phase, consumed, reports, tracker, outcome,
                    run_result, printed, slept >>

\* lines 206-210: run() returned Err, the error is printed
MainReport ==
    /\ pc = "returned"
    /\ run_result.kind = "err"
    /\ printed' = printed + 1
    /\ pc' = "grace"
    /\ UNCHANGED << opts, envv, runner_info, exists, found, template, vmi, calls, sigterm,
                    sigint, won, last_phase, consumed, reports, tracker, outcome,
                    run_result, slept, exit_code >>

\* lines 211-213
MainGraceExit ==
    /\ pc = "grace"
    /\ slept' = TRUE
    /\ exit_code' = Some(ExitFailure)
    /\ pc' = "exited"
    /\ UNCHANGED << opts, envv, runner_info, exists, found, template, vmi, calls, sigterm,
                    sigint, won, last_phase, consumed, reports, tracker, outcome,
                    run_result, printed >>

\* line 253: `expect` on an absent token panics; the panic leaves main() and the
\* process ends with the runtime's panic status
PanicExit ==
    /\ pc = "panicked"
    /\ exit_code' = Some(ExitPanic)
    /\ pc' = "exited"
    /\ UNCHANGED << opts, envv, runner_info, exists, found, template, vmi, calls, sigterm,
                    sigint, won, last_phase, consumed, reports, tracker, outcome,
                    run_result, printed, slept >>

Next ==
    \/ BuildRunnerInfo
    \/ Connect
    \/ Lookup
    \/ DeleteExisting
    \/ FetchTemplate
    \/ Create
    \/ RegisterSignals
    \/ DeliverSignal
    \/ SelectSigterm
    \/ SelectSigint
    \/ SelectWatch
    \/ Cleanup
    \/ MainOk
    \/ MainReport
    \/ MainGraceExit
    \/ PanicExit

Spec == Init /\ [][Next]_vars

---------------------------------------------------------------------------
(* Composition of the instance on its own, over every template *)

PayloadSet ==
    { JitRunnerInfo(<< "abc" >>),
      LegacyRunnerInfo(DefaultName, << "tok" >>, DefaultBase \o << "acme" >>, "false",
                       << >>, << >>) }

MergeInit ==
    /\ pc = "fetch"
    /\ opts = OptsTaken
    /\ envv = EnvTaken
    /\ runner_info \in { Some(ri) : ri \in PayloadSet }
    /\ exists = FALSE
    /\ found = "none"
    /\ template = None
    /\ vmi = None
    /\ calls = << Call("get_opt", 283, TRUE) >>
    /\ sigterm = FALSE
    /\ sigint = FALSE
    /\ won = "none"
    /\ last_phase = "Unknown"
    /\ consumed = << >>
    /\ reports = << >>
    /\ tracker = "idle"
    /\ outcome = None
    /\ run_result = NoResult
    /\ printed = 0
    /\ slept = FALSE
    /\ exit_code = None

FetchAnyTemplate == FetchTemplateFrom(Templates)

MergeNext ==
    \/ FetchAnyTemplate
    \/ Create

SpecMerge == MergeInit /\ [][MergeNext]_vars

---------------------------------------------------------------------------
(* wait_for_vmi on its own, with the stream it reads recorded *)

TrackerInit ==
    /\ pc = "tracking"
    /\ opts = OptsTaken
    /\ envv = EnvTaken
    /\ runner_info = None
    /\ exists = TRUE
    /\ found = "none"
    /\ template = None
    /\ vmi = None
    /\ calls = << >>
    /\ sigterm = FALSE
    /\ sigint = FALSE
    /\ won = "none"
    /\ last_phase = "Unknown"
    /\ consumed = << >>
    /\ reports = << >>
    /\ tracker = "idle"
    /\ outcome = None
    /\ run_result = NoResult
    /\ printed = 0
    /\ slept = FALSE
    /\ exit_code = None

\* one `stream.next().await` and the turn of the loop it feeds, lines 384-416
TrackerPoll ==
    /\ pc = "tracking"
    /\ tracker \in { "idle", "running" }
    /\ Len(consumed) < MaxEvents
    /\ \E item \in StreamItems :
          LET r == TrackerStep(last_phase, item)
          IN  /\ consumed' = Append(consumed, item)
              /\ reports' = reports \o r.report
              /\ last_phase' = r.last
              /\ tracker' = IF r.kind = "continue" THEN "running" ELSE r.kind
              /\ outcome' = IF r.kind = "ok" THEN Some(r.outcome) ELSE outcome
    /\ UNCHANGED << pc, opts, envv, runner_info, exists, found, template, vmi, calls,
                    sigterm, sigint, won, run_result, printed, slept, exit_code >>

TrackerNext == TrackerPoll

SpecTracker == TrackerInit /\ [][TrackerNext]_vars

---------------------------------------------------------------------------
(* Vocabulary of the properties *)

Issued(op, line) == \E i \in DOMAIN calls : calls[i].op = op /\ calls[i].line = line
Succeeded(op, line) ==
    \E i \in DOMAIN calls : calls[i].op = op /\ calls[i].line = line /\ calls[i].ok
FailedCall(op, line) ==
    \E i \in DOMAIN calls : calls[i].op = op /\ calls[i].line = line /\ ~calls[i].ok
CleanupIssued == Issued("delete_and_finalize", 361)
CreateIssued == Issued("create", 325)
CreateSucceeded == Succeeded("create", 325)
Returned == pc \in { "returned", "grace", "exited" }
SomeCallFailed == \E i \in DOMAIN calls : ~calls[i].ok

---------------------------------------------------------------------------
(* C1..C6: the run as a whole *)

\* C1: when the lookup finds an instance with the runner name, a successful
\* delete-and-finalize of it precedes the create call; a failed delete of it is
\* followed by no create; and when create is about to be issued the cluster is
\* not known to hold an instance with that name.
C1_DeleteBeforeCreate ==
    /\ \A i \in DOMAIN calls :
          (found = "some" /\ calls[i].op = "create")
              => \E j \in 1..(i - 1) :
                    /\ calls[j].op = "delete_and_finalize"
                    /\ calls[j].ok
                    /\ \E k \in 1..(j - 1) : calls[k].op = "get_opt" /\ calls[k].ok
    /\ FailedCall("delete_and_finalize", 285) => ~CreateIssued
    /\ pc = "create" => ~exists

C1_Witness ==
    /\ found = "some"
    /\ CreateIssued
    /\ Succeeded("delete_and_finalize", 285)

\* C2 as stated: a process that has exited after a successful create, with any
\* outcome but Deleted or with a fatal error, has issued the cleanup delete.
C2_CleanupOnEveryPath ==
    (pc = "exited" /\ CreateSucceeded /\ outcome # Some("Deleted")) => CleanupIssued

\* C2 as amended: a process that has exited after a successful create has issued
\* the cleanup delete exactly when the race of line 330 resolved to an outcome
\* other than Deleted; a run that a failed signal registration or a watch-stream
\* error ended has issued none.
C2_CleanupOnOutcome ==
    (pc = "exited" /\ CreateSucceeded)
        => /\ outcome \in { Some("Succeeded"), Some("Failed"), Some("WatchInterrupted") }
                => CleanupIssued
           /\ run_result.site \in { "signal", "watch" }
                => (outcome = None /\ ~CleanupIssued)

C2_Witness ==
    /\ pc = "exited"
    /\ CreateSucceeded
    /\ outcome = Some("Failed")
    /\ CleanupIssued

\* C3: the cleanup delete is issued at most once; once run() has returned with an
\* outcome, it has been issued if the outcome is Succeeded, Failed or
\* WatchInterrupted and has not been issued if the outcome is Deleted.
C3_CleanupOnceUnlessDeleted ==
    /\ Cardinality({ i \in DOMAIN calls :
                        calls[i].op = "delete_and_finalize" /\ calls[i].line = 361 }) <= 1
    /\ (Returned /\ IsSome(outcome))
          => (CleanupIssued <=> outcome # Some("Deleted"))
    /\ CleanupIssued => IsSome(outcome)

C3_Witness ==
    /\ pc = "exited"
    /\ outcome = Some("Succeeded")
    /\ won = "watch"
    /\ CleanupIssued

\* C4 as stated: when a termination signal wins the race the outcome is
\* WatchInterrupted, and once run() has returned the cleanup delete was issued and
\* the result is the failure that carries WatchInterrupted.
C4_SignalEndsCarryingInterrupted ==
    won \in { "sigterm", "sigint" }
        => /\ outcome = Some("WatchInterrupted")
           /\ Returned => (CleanupIssued /\ run_result = Err("outcome", "WatchInterrupted"))

\* C4 as amended: when a termination signal wins the race the outcome is
\* WatchInterrupted, whatever the watch stream had delivered; once run() has
\* returned the cleanup delete was issued and the result is a failure, which
\* carries WatchInterrupted if that delete succeeded and the delete's error if not.
C4_SignalEndsInFailure ==
    won \in { "sigterm", "sigint" }
        => /\ outcome = Some("WatchInterrupted")
           /\ pc \in { "cleanup", "returned", "grace", "exited" }
           /\ Returned
                => /\ CleanupIssued
                   /\ run_result.kind = "err"
                   /\ Succeeded("delete_and_finalize", 361)
                        => run_result = Err("outcome", "WatchInterrupted")
                   /\ FailedCall("delete_and_finalize", 361)
                        => run_result = Err("cleanup", "Failed to delete VMI")
           /\ pc = "exited" => exit_code = Some(ExitFailure)

C4_Witness ==
    /\ won = "sigterm"
    /\ tracker = "running"
    /\ last_phase = "Running"
    /\ pc = "exited"
    /\ run_result = Err("outcome", "WatchInterrupted")

\* C5: a process that has exited has status 0 exactly when the outcome is
\* Succeeded and no API call failed; with outcome Failed, Deleted or
\* WatchInterrupted, or with an error or panic, the status is not 0.
C5_SuccessIffSucceeded ==
    pc = "exited"
        => /\ IsSome(exit_code)
           /\ exit_code = Some(ExitSuccess)
                <=> (outcome = Some("Succeeded") /\ ~SomeCallFailed)
           /\ (outcome \in { Some("Failed"), Some("Deleted"), Some("WatchInterrupted") })
                => exit_code # Some(ExitSuccess)
           /\ run_result.kind \in { "err", "panic" } => exit_code # Some(ExitSuccess)

C5_Witness ==
    /\ pc = "exited"
    /\ outcome = Some("Deleted")
    /\ ~SomeCallFailed
    /\ exit_code = Some(ExitFailure)

\* C6: a failed API call is the last call of the run: nothing is issued after it,
\* run() has returned an error, and the process exits with a status other than 0.
C6_ErrorIsFatal ==
    /\ \A i \in DOMAIN calls : ~calls[i].ok => i = Len(calls)
    /\ SomeCallFailed
          => /\ Returned
             /\ run_result.kind = "err"
             /\ pc = "exited" => exit_code = Some(ExitFailure)
    /\ FailedCall("watcher", 375) => ~CleanupIssued
    /\ FailedCall("get_opt", 283) \/ FailedCall("delete_and_finalize", 285)
            \/ FailedCall("get", 290)
          => ~CreateIssued
    /\ FailedCall("create", 325) => ~Issued("watcher", 375)

C6_Witness ==
    /\ pc = "exited"
    /\ FailedCall("watcher", 375)
    /\ last_phase = "Running"

---------------------------------------------------------------------------
(* C7, C8: wait_for_vmi over recorded streams *)

Terminal(item) ==
    item.type = "Applied" /\ item.status \in { Some("Succeeded"), Some("Failed") }
\* the events that decide the result, and the two ways a stream stops giving events
Qualifying(item) == Terminal(item) \/ item.type = "Deleted"
Stops(item) == Qualifying(item) \/ item.type \in { "End", "Error" }

\* C7: the tracker's result is that of the first qualifying event of the stream:
\* Succeeded or Failed for an Applied with that phase, Deleted for a Deleted,
\* whatever came before; WatchInterrupted when the stream ends before any; the
\* tracker takes nothing off the stream after that event (an error item ends it
\* with an error instead), so the result depends on nothing that follows it.
C7_FirstQualifyingDecides ==
    LET n == Len(consumed)
    IN  /\ \A i \in 1..(n - 1) : ~Stops(consumed[i])
        /\ tracker \in { "ok", "err" } <=> (n > 0 /\ Stops(consumed[n]))
        /\ tracker = "err" <=> (n > 0 /\ consumed[n].type = "Error")
        /\ tracker = "ok"
              => /\ Terminal(consumed[n]) => outcome = consumed[n].status
                 /\ consumed[n].type = "Deleted" => outcome = Some("Deleted")
                 /\ consumed[n].type = "End" => outcome = Some("WatchInterrupted")
        /\ tracker # "ok" => outcome = None

C7_Witness ==
    /\ tracker = "ok"
    /\ outcome = Some("Deleted")
    /\ Len(consumed) = 4
    /\ consumed[1] = Item("Applied", Some("Pending"))
    /\ consumed[2] = Item("Applied", Some("Running"))
    /\ consumed[3] = Item("Restarted", Some("Succeeded"))

PhaseStream(ps) == [ i \in 1..Len(ps) |-> Item("Applied", Some(ps[i])) ]

\* what a poll took off the stream
Taken == consumed'[Len(consumed')]

\* C8: a poll reports a transition exactly when it takes an Applied whose status
\* has a phase other than last_phase, and it reports that phase; an Applied
\* without status or with the phase of last_phase changes nothing; the phases
\* Unknown, Pending, Pending, Running, Succeeded are reported as Pending, Running,
\* Succeeded and end the tracker with Succeeded.
C8_TransitionsReported ==
    /\ [][ consumed' # consumed
             => /\ reports' = reports \o
                      ( IF Taken.type = "Applied" /\ IsSome(Taken.status)
                           /\ Unwrap(Taken.status) # last_phase
                        THEN << Unwrap(Taken.status) >> ELSE << >> )
                /\ ( Taken.type = "Applied"
                       /\ (Taken.status = None \/ Taken.status = Some(last_phase)) )
                      => /\ last_phase' = last_phase
                         /\ outcome' = outcome
                         /\ tracker' = "running" ]_vars
    /\ [] ( /\ consumed = << >> => last_phase = "Unknown"
            /\ consumed = PhaseStream(<< "Unknown", "Pending", "Pending", "Running",
                                         "Succeeded" >>)
                  => /\ reports = << "Pending", "Running", "Succeeded" >>
                     /\ tracker = "ok"
                     /\ outcome = Some("Succeeded") )

C8_Witness ==
    /\ consumed = PhaseStream(<< "Unknown", "Pending", "Pending", "Running", "Succeeded" >>)
    /\ reports = << "Pending", "Running", "Succeeded" >>

---------------------------------------------------------------------------
(* C9, C10: the volumes of the composed instance *)

TemplateVolumes == GetOrDefault(Unwrap(template).spec.volumes, << >>)
InstanceVolumes == Unwrap(Unwrap(vmi).spec.volumes)
Named(vols) == { i \in DOMAIN vols : vols[i].name = RUNNER_INFO_VOLUME }
IsOther(v) == v.name # RUNNER_INFO_VOLUME
Minimum(S) == CHOOSE i \in S : \A j \in S : i <= j
AnnotationProjected ==
    /\ IsSome(Unwrap(vmi).metadata.annotations)
    /\ RUNNER_INFO_ANNOTATION \in DOMAIN Unwrap(Unwrap(vmi).metadata.annotations)
    /\ Unwrap(Unwrap(vmi).metadata.annotations)[RUNNER_INFO_ANNOTATION]
          = Serialize(Unwrap(runner_info))

\* C9 as stated: the created instance has exactly one volume named
\* "runner-info", and it is the projection of the annotation, whatever volumes
\* the template has.
C9_ExactlyOneRunnerInfoVolume ==
    CreateSucceeded
        => /\ Cardinality(Named(InstanceVolumes)) = 1
           /\ \A i \in Named(InstanceVolumes) : InstanceVolumes[i].data = DownwardData

\* C9 as amended: when the template has at most one volume named "runner-info"
\* the instance sent to create has exactly one, the projection of the annotation;
\* when the template has several, the instance has as many, at the same places:
\* the first is the projection and the others keep the template's definitions.
C9_OneRunnerInfoVolumeUnlessSeveral ==
    CreateIssued
        => /\ AnnotationProjected
           /\ Cardinality(Named(TemplateVolumes)) <= 1
                => /\ Cardinality(Named(InstanceVolumes)) = 1
                   /\ \A i \in Named(InstanceVolumes) : InstanceVolumes[i].data = DownwardData
           /\ Cardinality(Named(TemplateVolumes)) > 1
                => /\ Named(InstanceVolumes) = Named(TemplateVolumes)
                   /\ \A i \in Named(InstanceVolumes) :
                         InstanceVolumes[i].data =
                            IF i = Minimum(Named(TemplateVolumes))
                            THEN DownwardData ELSE TemplateVolumes[i].data

C9_Witness ==
    /\ CreateSucceeded
    /\ Cardinality(Named(TemplateVolumes)) = 1
    /\ Len(TemplateVolumes) = 2
    /\ Cardinality(Named(InstanceVolumes)) = 1

\* C10: the volumes of the template that are not named "runner-info" are in the
\* composed instance unchanged and in the same order; without a "runner-info"
\* volume in the template the instance's list is the template's with one entry
\* appended; with one, the list has the same length and the same entries at the
\* same places, but for the definition of that entry.
C10_OtherVolumesKept ==
    IsSome(vmi)
        => /\ SelectSeq(InstanceVolumes, IsOther) = SelectSeq(TemplateVolumes, IsOther)
           /\ Unwrap(vmi).spec.data = Unwrap(template).spec.data
           /\ Named(TemplateVolumes) = {}
                => /\ Len(InstanceVolumes) = Len(TemplateVolumes) + 1
                   /\ SubSeq(InstanceVolumes, 1, Len(TemplateVolumes)) = TemplateVolumes
                   /\ InstanceVolumes[Len(InstanceVolumes)]
                         = Volume(RUNNER_INFO_VOLUME, DownwardData)
           /\ Cardinality(Named(TemplateVolumes)) = 1
                => /\ Len(InstanceVolumes) = Len(TemplateVolumes)
                   /\ \A i \in DOMAIN TemplateVolumes :
                         IF i \in Named(TemplateVolumes)
                         THEN InstanceVolumes[i] = Volume(RUNNER_INFO_VOLUME, DownwardData)
                         ELSE InstanceVolumes[i] = TemplateVolumes[i]

C10_Witness ==
    /\ IsSome(vmi)
    /\ Len(TemplateVolumes) = 3
    /\ TemplateVolumes[1].name = "data"
    /\ TemplateVolumes[2].name = RUNNER_INFO_VOLUME
    /\ TemplateVolumes[3].name = "cache"
    /\ InstanceVolumes[2].data = DownwardData

---------------------------------------------------------------------------
(* C11: composing twice *)

\* C11: composing an instance from the instance already composed, with the same
\* name and payload, gives that instance again: same metadata (name and
\* annotations) and same spec (volumes and the rest).
C11_MergeIdempotent ==
    IsSome(vmi)
        => LET once == Merge(Unwrap(template), vmi_name, Unwrap(runner_info))
               twice == Merge(once, vmi_name, Unwrap(runner_info))
           IN  /\ Unwrap(vmi) = once
               /\ twice.metadata = once.metadata
               /\ twice.spec = once.spec

C11_Witness ==
    /\ IsSome(vmi)
    /\ Unwrap(template).metadata.annotations # None
    /\ RUNNER_INFO_ANNOTATION \in DOMAIN Unwrap(Unwrap(template).metadata.annotations)
    /\ Cardinality(Named(TemplateVolumes)) = 1
    /\ Len(TemplateVolumes) = 3
    /\ Unwrap(runner_info).variant = "Legacy"

---------------------------------------------------------------------------
(* C12..C15: the bootstrap payload and the end of the process *)

\* C12: a process that has exited with a status other than 0 has printed exactly
\* one error message and has waited the grace period; one that has exited with
\* status 0 has printed none and has not waited; and a run that did not return
\* Ok exits with a status other than 0.
C12_FailureReportedThenGrace ==
    pc = "exited"
        => /\ exit_code # Some(ExitSuccess) => (printed = 1 /\ slept)
           /\ exit_code = Some(ExitSuccess) => (printed = 0 /\ ~slept)
           /\ run_result.kind # "ok" => exit_code # Some(ExitSuccess)

\* C13: in legacy mode without a registration token, lines 218-259 end run() with
\* an error value for the configuration, and no API call has been or is issued.
C13_AbsentTokenIsConfigError ==
    /\ [][ (pc = "config" /\ ~IsSome(opts.jitconfig) /\ ~IsSome(opts.token))
             => /\ run_result'.kind = "err"
                /\ run_result'.site = "config"
                /\ pc' = "returned"
                /\ calls' = << >> ]_vars
    /\ [] (run_result.site = "config" => calls = << >>)

IsEmptyVar(v) == v = None \/ v = Some(<< >>)

\* C14: in legacy mode an explicit URL is the resolved URL whatever RUNNER_ORG and
\* RUNNER_REPO hold; without one, resolution is a configuration error when both
\* are empty (unset counts as empty) or both non-empty, and otherwise the URL is
\* the base followed by the one that is non-empty, the base being GITHUB_URL when
\* it is set and "https://github.com/" when it is not.
C14_UrlResolution ==
    [][ (pc = "config" /\ ~IsSome(opts.jitconfig))
          => LET base == IF envv.GITHUB_URL = None THEN DefaultBase
                         ELSE Unwrap(envv.GITHUB_URL)
                 path == IF IsEmptyVar(envv.RUNNER_ORG) THEN Unwrap(envv.RUNNER_REPO)
                         ELSE Unwrap(envv.RUNNER_ORG)
                 wanted == IF opts.url # None THEN Unwrap(opts.url) ELSE base \o path
             IN  IF opts.url = None
                    /\ IsEmptyVar(envv.RUNNER_ORG) = IsEmptyVar(envv.RUNNER_REPO)
                 THEN /\ run_result'.kind = "err"
                      /\ run_result'.site = "config"
                      /\ runner_info' = None
                      /\ pc' = "returned"
                 ELSE /\ run_result'.kind # "err"
                      /\ IsSome(opts.token)
                            => /\ IsSome(runner_info')
                               /\ Unwrap(runner_info').variant = "Legacy"
                               /\ Unwrap(runner_info').url = wanted
                               /\ pc' = "client" ]_vars

C14_Witness ==
    /\ pc = "client"
    /\ IsSome(runner_info)
    /\ Unwrap(runner_info).variant = "Legacy"
    /\ Unwrap(runner_info).url = << "https://ghe.example/", "acme/widgets" >>

\* C15: with a JIT config the payload is the Jit variant holding it, whatever the
\* token, the URL, RUNNER_ORG and RUNNER_REPO are: lines 218-259 end without error
\* or panic, the run goes on to set up the client, and the first API call it
\* issues is the lookup.
C15_JitIgnoresIdentity ==
    /\ [][ (pc = "config" /\ IsSome(opts.jitconfig))
             => /\ runner_info' = Some(JitRunnerInfo(Unwrap(opts.jitconfig)))
                /\ run_result' = NoResult
                /\ pc' = "client" ]_vars
    /\ [][ (pc = "client" /\ run_result' = NoResult /\ pc' # pc) => pc' = "lookup" ]_vars
    /\ [] ( /\ (IsSome(runner_info) /\ Unwrap(runner_info).variant = "Jit")
                => (run_result.site # "config" /\ run_result.kind # "panic")
            /\ calls # << >> => (calls[1].op = "get_opt" /\ IsSome(runner_info)) )

C15_Witness ==
    /\ IsSome(runner_info)
    /\ Unwrap(runner_info) = JitRunnerInfo(<< "abc" >>)
    /\ Succeeded("get_opt", 283)

---------------------------------------------------------------------------
(* C16, C17: the order of the calls and the race *)

\* the place of a call in lookup, delete, fetch, create, watch, delete
Rank(c) ==
    CASE c.op = "get_opt" -> 1
      [] c.op = "delete_and_finalize" /\ c.line = 285 -> 2
      [] c.op = "get" -> 3
      [] c.op = "create" -> 4
      [] c.op = "watcher" -> 5
      [] OTHER -> 6

Ops == [ i \in DOMAIN calls |-> calls[i].op ]

\* C16: the calls issued are in the order lookup, delete, fetch, create, watch,
\* delete, each at most once and each after every earlier one returned Ok; the
\* first is the lookup, and fetch, create, watch and cleanup are each preceded by
\* the one they depend on. A run that found no instance, had no failed call and
\* whose watch reported Succeeded has issued exactly get_opt, get, create,
\* watcher, delete_and_finalize and exits 0.
C16_CallOrder ==
    /\ \A i, j \in DOMAIN calls : i < j => Rank(calls[i]) < Rank(calls[j])
    /\ \A i \in DOMAIN calls : i < Len(calls) => calls[i].ok
    /\ calls # << >> => calls[1].op = "get_opt"
    /\ Issued("delete_and_finalize", 285) => found = "some"
    /\ Issued("create", 325) => Succeeded("get", 290)
    /\ Issued("watcher", 375) => CreateSucceeded
    /\ CleanupIssued => CreateSucceeded
    /\ Cardinality({ i \in DOMAIN calls : calls[i].op = "create" }) <= 1
    /\ Cardinality({ i \in DOMAIN calls : calls[i].op = "delete_and_finalize" }) <= 2
    /\ ( /\ pc = "exited"
         /\ found = "none"
         /\ ~SomeCallFailed
         /\ won = "watch"
         /\ outcome = Some("Succeeded") )
          => /\ Ops = << "get_opt", "get", "create", "watcher", "delete_and_finalize" >>
             /\ exit_code = Some(ExitSuccess)

C16_Witness ==
    /\ pc = "exited"
    /\ found = "none"
    /\ Ops = << "get_opt", "get", "create", "watcher", "delete_and_finalize" >>
    /\ ~SomeCallFailed
    /\ exit_code = Some(ExitSuccess)

\* C17: once the race has bound an outcome, nothing changes it, the winner, or the
\* tracker's state: no item is taken off the stream any more. When the watch
\* branch wins the outcome is what the tracker returned. A signal delivered or
\* still pending after that changes nothing: the cleanup delete is issued once,
\* unless the outcome is Deleted, and the result of the run is that of the outcome
\* (or the error of the cleanup delete).
C17_OutcomeFixedAfterRace ==
    /\ [][ IsSome(outcome)
             => /\ outcome' = outcome
                /\ won' = won
                /\ last_phase' = last_phase
                /\ tracker' = tracker ]_vars
    /\ [][ (pc = "watching" /\ won' = "watch" /\ IsSome(outcome'))
             => /\ tracker' = "ok"
                /\ \E item \in StreamItems :
                      /\ TrackerStep(last_phase, item).kind = "ok"
                      /\ outcome' = Some(TrackerStep(last_phase, item).outcome) ]_vars
    /\ [] ( (Returned /\ IsSome(outcome))
              => /\ CleanupIssued <=> outcome # Some("Deleted")
                 /\ Cardinality({ i \in DOMAIN calls : calls[i].line = 361 }) <= 1
                 /\ ~FailedCall("delete_and_finalize", 361)
                       => run_result = Classify(Unwrap(outcome)) )

C17_Witness ==
    /\ pc = "exited"
    /\ won = "watch"
    /\ outcome = Some("Succeeded")
    /\ sigterm
    /\ CleanupIssued
    /\ exit_code = Some(ExitSuccess)

---------------------------------------------------------------------------
(* C18: termination of a run *)

\* the steps the process takes by itself, one after the other: each await returns
Proceeds ==
    \/ BuildRunnerInfo
    \/ Connect
    \/ Lookup
    \/ DeleteExisting
    \/ FetchTemplate
    \/ Create
    \/ RegisterSignals
    \/ Cleanup
    \/ MainOk
    \/ MainReport
    \/ MainGraceExit
    \/ PanicExit

\* select! (line 330) polls every branch: a receiver that holds a signal is not
\* passed over for ever. Neither the arrival of a signal nor what the stream
\* delivers is the program's to decide, so neither is fair.
SpecFair ==
    /\ Spec
    /\ WF_vars(Proceeds)
    /\ WF_vars(SelectSigterm)
    /\ WF_vars(SelectSigint)

Signalled == sigterm \/ sigint

\* C18: every step before and after Watching is taken, so a run reaches Watching
\* or exits, and a run past Watching exits. In Watching a stream item that stops
\* the tracker (terminal phase, Deleted, error, end) moves the run on at once, and
\* a delivered signal eventually does; then the run exits. Conversely the run
\* leaves Watching only by a signal that was delivered or by such an item: no
\* timeout and no other step ends the wait.
C18_Terminates ==
    /\ (pc # "watching") ~> (pc \in { "watching", "exited" })
    /\ (pc \in { "cleanup", "returned", "panicked" }) ~> (pc = "exited")
    /\ (pc = "watching" /\ Signalled) ~> (pc = "exited")
    /\ [][ (pc = "watching" /\ tracker' \in { "ok", "err" })
             => pc' \in { "cleanup", "returned" } ]_vars
    /\ [][ (pc = "watching" /\ pc' # "watching")
             => \/ sigterm /\ won' = "sigterm"
                \/ sigint /\ won' = "sigint"
                \/ won' = "watch" /\ tracker' \in { "ok", "err" } ]_vars
    /\ [][ (pc = "watching" /\ ~Signalled /\ tracker' \notin { "ok", "err" })
             => pc' = "watching" ]_vars

C18_Witness ==
    /\ pc = "exited"
    /\ won = "sigint"
    /\ tracker = "running"
    /\ CleanupIssued
    /\ slept

---------------------------------------------------------------------------
(* C19, C20: what last_phase can hold, and the events that are passed over *)

\* C19: last_phase is never Succeeded or Failed, and an Applied whose status has
\* the phase Succeeded or Failed is the last item the tracker takes: the tracker
\* has returned Ok with that phase as its outcome, whatever it took before.
C19_TerminalPhaseNeverHidden ==
    /\ last_phase \notin { "Succeeded", "Failed" }
    /\ \A i \in DOMAIN consumed :
          Terminal(consumed[i])
              => /\ i = Len(consumed)
                 /\ tracker = "ok"
                 /\ outcome = consumed[i].status

C19_Witness ==
    /\ Len(consumed) = 4
    /\ consumed[1] = Item("Applied", Some("Running"))
    /\ consumed[2] = Item("Restarted", Some("Succeeded"))
    /\ consumed[3] = Item("Applied", Some("Running"))
    /\ consumed[4] = Item("Applied", Some("Failed"))
    /\ last_phase = "Running"
    /\ outcome = Some("Failed")

\* C20: a poll that takes an event other than Applied and Deleted, whatever the
\* objects it lists, leaves last_phase, the outcome and the reports as they were,
\* and the tracker goes on.
C20_OtherEventsPassedOver ==
    [][ (consumed' # consumed /\ Taken.type \notin { "Applied", "Deleted", "End", "Error" })
          => /\ last_phase' = last_phase
             /\ outcome' = outcome
             /\ reports' = reports
             /\ tracker' = "running" ]_vars

C20_Witness ==
    /\ Len(consumed) = 3
    /\ consumed[1] = Item("Restarted", Some("Succeeded"))
    /\ consumed[2] = Item("Restarted", None)
    /\ consumed[3] = Item("Applied", Some("Pending"))
    /\ tracker = "running"
    /\ outcome = None
    /\ reports = << "Pending" >>

====
